---- MODULE Spec2Model ----
(***************************************************************************)
(* Model of estafette-docker-cache-heater.  Two variants of main exist:    *)
(*   "prune"  : src/main.go          (pull all, wait, docker system prune) *)
(*   "remove" : src/unnamed/part_000 (pull then rmi in each goroutine)     *)
(* Both share src/dockerRunner.go.  The process consists of the main       *)
(* goroutine, the loop goroutine started by main, and one goroutine per    *)
(* listed image in each cycle.  External commands (docker pull / rmi /     *)
(* system prune) are modelled by a start step (the command is issued) and  *)
(* a finish step (cmd.Run returns, with or without an error).              *)
(***************************************************************************)
EXTENDS Integers, Sequences, FiniteSets, TLC

\* ---- bounds -------------------------------------------------------------
MaxLen == 2
MaxJitterInput == 40

\* ---- program constants --------------------------------------------------
LoopInterval == 900
ReadyInterval == 10
DaemonPollInterval == 1

Images == {"alpine", "nginx"}
ReadinessImage == "alpine"
Variants == {"prune", "remove"}

Lists == UNION {[1..n -> Images] : n \in 0..MaxLen}

\* what ioutil.ReadFile can hand to the loop: an error, bytes that strict
\* decoding rejects, or bytes that decode to a list of image references
NoData == [kind |-> "none", list |-> <<>>]
Garbage == [kind |-> "garbage", list |-> <<>>]
FileContents == {[kind |-> "yaml", list |-> l] : l \in Lists} \cup {Garbage}

VARIABLES
    variant,        \* which main is running
    healthEndpoint, \* prune variant: TRUE iff --registry-health-endpoint is non-empty
    mainPc,         \* position of the main goroutine
    daemonStarted,  \* startDockerDaemon returned nil
    sock,           \* /var/run/docker.sock: "absent" or "present"
    daemonReady,    \* waitForDockerDaemon has returned
    mainSleep,      \* seconds main is sleeping for (0 = not sleeping)
    probeOk,        \* history: the last readiness probe (GET or pull of alpine) succeeded
    sigDelivered,   \* a SIGTERM/SIGINT has been delivered after signal.Notify
    loopPc,         \* position of the loop goroutine
    data,           \* result of ioutil.ReadFile in this cycle
    containerList,  \* containerList.Containers of this cycle
    spawnIdx,       \* index of the range loop that starts the goroutines
    wg,             \* sync.WaitGroup counter
    gs,             \* live per-image goroutines
    loopSleep,      \* seconds the loop is sleeping for (0 = not sleeping)
    cycleOutcome,   \* history: "none", "readfail", "decodefail" or "ok"
    pulled,         \* history: docker pulls issued by the loop in this cycle, per image
    removed,        \* history: docker rmis issued in this cycle, per image
    pullFailed,     \* history: some pull of this cycle returned an error
    prunes,         \* history: docker system prunes issued in this cycle
    pruneFailed,    \* history: the prune of this cycle returned an error
    sleeps,         \* history: sleepWithJitter calls of the loop in this cycle
    unremoved,      \* history, remove variant: images pulled and not yet followed by a docker rmi
    jIn,            \* input of applyJitter (function-level specification)
    jOut            \* output of applyJitter (0 = not yet applied)

mainVars == <<variant, healthEndpoint, mainPc, daemonStarted, sock, daemonReady, mainSleep, probeOk>>
sigVars == <<sigDelivered>>
loopVars == <<loopPc, data, containerList, spawnIdx, wg, gs, loopSleep>>
histVars == <<cycleOutcome, pulled, removed, pullFailed, prunes, pruneFailed, sleeps, unremoved>>
jitterVars == <<jIn, jOut>>
vars == <<mainVars, sigVars, loopVars, histVars, jitterVars>>

\* ---- helpers ------------------------------------------------------------
ZeroBag == [i \in Images |-> 0]

Count(list, img) == Cardinality({i \in DOMAIN list : list[i] = img})

BagOf(list) == [img \in Images |-> Count(list, img)]

\* the process is alive: main has neither returned nor called log.Fatal
Running == mainPc \notin {"done", "fatal"}

\* ---- applyJitter --------------------------------------------------------
\* deviation := int(0.25 * float64(input))
Deviation(input) == input \div 4

\* r.Intn(n): an integer in [0, n)
Intn(n) == 0..(n - 1)

\* slip: the deviation is not subtracted, the jitter only lengthens the sleep
ApplyJitterUncentred(input, rnd) == input + rnd

\* return input - deviation + r.Intn(2*deviation), for the random draw rnd
ApplyJitter(input, rnd) == input - Deviation(input) + rnd

\* every value applyJitter(input) can return
JitterResults(input) == {ApplyJitter(input, rnd) : rnd \in Intn(2 * Deviation(input))}

\* ---- initial state ------------------------------------------------------
\* main has parsed its flags, set up logging and registered the
\* gracefulShutdown channel with signal.Notify; nothing has been started yet
ProgramInit ==
    /\ variant \in Variants
    /\ healthEndpoint \in (IF variant = "prune" THEN BOOLEAN ELSE {FALSE})
    /\ mainPc = "startDaemon"
    /\ daemonStarted = FALSE
    /\ sock = "absent"
    /\ daemonReady = FALSE
    /\ mainSleep = 0
    /\ probeOk = FALSE
    /\ sigDelivered = FALSE
    /\ loopPc = "idle"
    /\ data = NoData
    /\ containerList = <<>>
    /\ spawnIdx = 0
    /\ wg = 0
    /\ gs = {}
    /\ loopSleep = 0
    /\ cycleOutcome = "none"
    /\ pulled = ZeroBag
    /\ removed = ZeroBag
    /\ pullFailed = FALSE
    /\ prunes = 0
    /\ pruneFailed = FALSE
    /\ sleeps = 0
    /\ unremoved = {}

Init ==
    /\ ProgramInit
    /\ jIn = 0
    /\ jOut = 0

\* ---- main goroutine -----------------------------------------------------
\* slip: the error of startDockerDaemon is not checked
AfterStartUnchecked(err) == "waitDaemon"

\* slip: a failed start is only logged and main goes on past the wait
AfterStartLogOnly(err) == IF err THEN "ready" ELSE "waitDaemon"

\* where main goes when startDockerDaemon returns err: log.Fatal on an error
AfterStart(err) == IF err THEN "fatal" ELSE "waitDaemon"

\* err := dockerRunner.startDockerDaemon(); if err != nil { log.Fatal() }
StartDockerDaemon ==
    /\ mainPc = "startDaemon"
    /\ \E err \in BOOLEAN :
        /\ daemonStarted' = ~err
        /\ mainPc' = AfterStart(err)
    /\ UNCHANGED <<variant, healthEndpoint, sock, daemonReady, mainSleep, probeOk>>
    /\ UNCHANGED <<sigVars, loopVars, histVars, jitterVars>>

\* the started dockerd creates /var/run/docker.sock at some point
DaemonCreatesSocket ==
    /\ Running
    /\ daemonStarted
    /\ sock = "absent"
    /\ sock' = "present"
    /\ UNCHANGED <<variant, healthEndpoint, mainPc, daemonStarted, daemonReady, mainSleep, probeOk>>
    /\ UNCHANGED <<sigVars, loopVars, histVars, jitterVars>>

\* what os.Stat("/var/run/docker.sock") can return: nil when the file is
\* there, an IsNotExist error when it is not, or another error in either case
StatOutcomes(s) == IF s = "present" THEN {"ok", "othererr"} ELSE {"notexist", "othererr"}

\* one iteration of the for loop of waitForDockerDaemon
WaitForDockerDaemon ==
    /\ mainPc = "waitDaemon"
    /\ \E st \in StatOutcomes(sock) :
        IF st = "notexist"
          THEN /\ mainPc' = "waitSleep"
               /\ mainSleep' = DaemonPollInterval
               /\ UNCHANGED daemonReady
          ELSE /\ mainPc' = "ready"
               /\ mainSleep' = 0
               /\ daemonReady' = TRUE
    /\ UNCHANGED <<variant, healthEndpoint, daemonStarted, sock, probeOk>>
    /\ UNCHANGED <<sigVars, loopVars, histVars, jitterVars>>

\* time.Sleep(1000 * time.Millisecond) of waitForDockerDaemon is over
DaemonPollWake ==
    /\ mainPc = "waitSleep"
    /\ mainPc' = "waitDaemon"
    /\ mainSleep' = 0
    /\ UNCHANGED <<variant, healthEndpoint, daemonStarted, sock, daemonReady, probeOk>>
    /\ UNCHANGED <<sigVars, loopVars, histVars, jitterVars>>

\* prune variant, no health endpoint configured: the if is skipped
SkipHealthCheck ==
    /\ mainPc = "ready"
    /\ variant = "prune"
    /\ ~healthEndpoint
    /\ mainPc' = "goLoop"
    /\ UNCHANGED <<variant, healthEndpoint, daemonStarted, sock, daemonReady, mainSleep, probeOk>>
    /\ UNCHANGED <<sigVars, loopVars, histVars, jitterVars>>

HttpOutcomes == {"ok200", "err", "status503"}

\* slip: the status code of the response is not looked at
RegistryReadyAnyStatus(outcome) == outcome /= "err"

\* err == nil && resp.StatusCode == http.StatusOK
RegistryReady(outcome) == outcome = "ok200"

\* prune variant: one iteration of the registry health wait
HttpGetHealth ==
    /\ mainPc = "ready"
    /\ variant = "prune"
    /\ healthEndpoint
    /\ \E outcome \in HttpOutcomes :
        /\ probeOk' = (outcome = "ok200")
        /\ IF RegistryReady(outcome)
             THEN /\ mainPc' = "goLoop"
                  /\ mainSleep' = 0
             ELSE /\ mainPc' = "readySleep"
                  /\ mainSleep' \in JitterResults(ReadyInterval)
    /\ UNCHANGED <<variant, healthEndpoint, daemonStarted, sock, daemonReady>>
    /\ UNCHANGED <<sigVars, loopVars, histVars, jitterVars>>

\* remove variant: dockerRunner.runDockerPull("alpine") is issued
AlpinePullStart ==
    /\ mainPc = "ready"
    /\ variant = "remove"
    /\ mainPc' = "alpinePulling"
    /\ unremoved' = unremoved \cup {ReadinessImage}
    /\ UNCHANGED <<variant, healthEndpoint, daemonStarted, sock, daemonReady, mainSleep, probeOk>>
    /\ UNCHANGED <<cycleOutcome, pulled, removed, pullFailed, prunes, pruneFailed, sleeps>>
    /\ UNCHANGED <<sigVars, loopVars, jitterVars>>

\* slip: the readiness loop is left after the first attempt
MirrorReadyAlways(err) == TRUE

\* if err == nil { break }
MirrorReady(err) == ~err

\* remove variant: the readiness pull returns; break on nil, else sleepWithJitter(10)
AlpinePullFinish ==
    /\ mainPc = "alpinePulling"
    /\ \E err \in BOOLEAN :
        /\ probeOk' = ~err
        /\ IF MirrorReady(err)
             THEN /\ mainPc' = "goLoop"
                  /\ mainSleep' = 0
             ELSE /\ mainPc' = "readySleep"
                  /\ mainSleep' \in JitterResults(ReadyInterval)
    /\ UNCHANGED <<variant, healthEndpoint, daemonStarted, sock, daemonReady>>
    /\ UNCHANGED <<sigVars, loopVars, histVars, jitterVars>>

\* sleepWithJitter(10) of the readiness loop is over: next attempt
ReadySleepWake ==
    /\ mainPc = "readySleep"
    /\ mainPc' = "ready"
    /\ mainSleep' = 0
    /\ UNCHANGED <<variant, healthEndpoint, daemonStarted, sock, daemonReady, probeOk>>
    /\ UNCHANGED <<sigVars, loopVars, histVars, jitterVars>>

\* go func() { for { ... } }(): the loop goroutine starts, main blocks on
\* <-gracefulShutdown
StartLoop ==
    /\ mainPc = "goLoop"
    /\ mainPc' = "block"
    /\ loopPc' = "read"
    /\ UNCHANGED <<variant, healthEndpoint, daemonStarted, sock, daemonReady, mainSleep, probeOk>>
    /\ UNCHANGED <<data, containerList, spawnIdx, wg, gs, loopSleep>>
    /\ UNCHANGED <<sigVars, histVars, jitterVars>>

\* the runtime's send of a signal on the channel registered with
\* signal.Notify never blocks; gracefulShutdown is unbuffered, so the send
\* succeeds only while main is blocked in the receive
SendSucceeds(pc) == pc = "block"

\* a SIGTERM or SIGINT is delivered while main is not in the receive: the
\* runtime's send finds no receiver and the signal is discarded
SignalDropped ==
    /\ Running
    /\ ~SendSucceeds(mainPc)
    /\ sigDelivered' = TRUE
    /\ UNCHANGED <<mainVars, loopVars, histVars, jitterVars>>

\* a SIGTERM or SIGINT is delivered while main is blocked in
\* <-gracefulShutdown: main receives it, logs "Shutting down..." and returns
SignalReceived ==
    /\ Running
    /\ SendSucceeds(mainPc)
    /\ sigDelivered' = TRUE
    /\ mainPc' = "done"
    /\ UNCHANGED <<variant, healthEndpoint, daemonStarted, sock, daemonReady, mainSleep, probeOk>>
    /\ UNCHANGED <<loopVars, histVars, jitterVars>>

\* ---- loop goroutine -----------------------------------------------------
\* data, err := ioutil.ReadFile(path); on err: warn, sleepWithJitter(900), continue.
\* A new iteration starts here: the locals of the previous one are gone.
ReadFile ==
    /\ Running
    /\ loopPc = "read"
    /\ containerList' = <<>>
    /\ spawnIdx' = 0
    /\ pulled' = ZeroBag
    /\ removed' = ZeroBag
    /\ pullFailed' = FALSE
    /\ prunes' = 0
    /\ pruneFailed' = FALSE
    /\ \/ /\ \E d \in FileContents : data' = d
          /\ loopPc' = "unmarshal"
          /\ cycleOutcome' = "none"
          /\ sleeps' = 0
          /\ loopSleep' = 0
       \/ /\ data' = NoData
          /\ loopPc' = "sleep"
          /\ cycleOutcome' = "readfail"
          /\ sleeps' = 1
          /\ loopSleep' \in JitterResults(LoopInterval)
    /\ UNCHANGED <<wg, gs, unremoved>>
    /\ UNCHANGED <<mainVars, sigVars, jitterVars>>

\* yaml.UnmarshalStrict(data, &containerList); on err: warn,
\* sleepWithJitter(900), continue
Unmarshal ==
    /\ Running
    /\ loopPc = "unmarshal"
    /\ IF data.kind = "garbage"
         THEN /\ loopPc' = "sleep"
              /\ cycleOutcome' = "decodefail"
              /\ sleeps' = sleeps + 1
              /\ loopSleep' \in JitterResults(LoopInterval)
              /\ UNCHANGED containerList
         ELSE /\ loopPc' = "add"
              /\ cycleOutcome' = "ok"
              /\ containerList' = data.list
              /\ UNCHANGED <<sleeps, loopSleep>>
    /\ UNCHANGED <<data, spawnIdx, wg, gs>>
    /\ UNCHANGED <<pulled, removed, pullFailed, prunes, pruneFailed, unremoved>>
    /\ UNCHANGED <<mainVars, sigVars, jitterVars>>

\* slip: the wait group is armed for one goroutine too few
WgDeltaShort(list) == IF Len(list) > 0 THEN Len(list) - 1 ELSE 0

\* the delta handed to wg.Add
WgDelta(list) == Len(list)

\* var wg sync.WaitGroup; wg.Add(len(containerList.Containers))
WgAdd ==
    /\ Running
    /\ loopPc = "add"
    /\ wg' = wg + WgDelta(containerList)
    /\ spawnIdx' = 1
    /\ loopPc' = "spawn"
    /\ UNCHANGED <<data, containerList, gs, loopSleep>>
    /\ UNCHANGED <<mainVars, sigVars, histVars, jitterVars>>

\* slip: the closure captures the range variable instead of taking it as
\* an argument, so every goroutine sees the last element
GoroutineArgCaptured(list, i) == list[Len(list)]

\* the argument the goroutine of index i is started with: go func(container string){...}(c)
GoroutineArg(list, i) == list[i]

\* one iteration of "for _, c := range containerList.Containers { go func ... }"
Spawn ==
    /\ Running
    /\ loopPc = "spawn"
    /\ spawnIdx <= Len(containerList)
    /\ gs' = gs \cup {[idx |-> spawnIdx,
                       container |-> GoroutineArg(containerList, spawnIdx),
                       pc |-> "spawned", pullErr |-> FALSE]}
    /\ spawnIdx' = spawnIdx + 1
    /\ UNCHANGED <<loopPc, data, containerList, wg, loopSleep>>
    /\ UNCHANGED <<mainVars, sigVars, histVars, jitterVars>>

\* slip: the join is missing
WaitReturnsAtOnce(counter) == TRUE

\* slip: the join gives up while one goroutine is still outstanding
WaitReturnsOneShort(counter) == counter <= 1

\* wg.Wait() returns when the counter is zero
WaitReturns(counter) == counter = 0

\* slip: the remove variant starts its next iteration without sleeping
AfterWaitNoSleep(v) == IF v = "prune" THEN "prune" ELSE "read"

\* where the loop goes after wg.Wait(): prune in main.go, the sleep in the
\* remove variant
AfterWait(v) == IF v = "prune" THEN "prune" ELSE "sleep"

\* the range loop is over; wg.Wait() returns
WgWait ==
    /\ Running
    /\ loopPc = "spawn"
    /\ spawnIdx > Len(containerList)
    /\ WaitReturns(wg)
    /\ loopPc' = AfterWait(variant)
    /\ IF AfterWait(variant) = "sleep"
         THEN /\ sleeps' = sleeps + 1
              /\ loopSleep' \in JitterResults(LoopInterval)
         ELSE UNCHANGED <<sleeps, loopSleep>>
    /\ UNCHANGED <<data, containerList, spawnIdx, wg, gs>>
    /\ UNCHANGED <<cycleOutcome, pulled, removed, pullFailed, prunes, pruneFailed, unremoved>>
    /\ UNCHANGED <<mainVars, sigVars, jitterVars>>

\* prune variant: dockerRunner.runDockerSystemPrune() issues the command
PruneStart ==
    /\ Running
    /\ loopPc = "prune"
    /\ loopPc' = "pruning"
    /\ prunes' = prunes + 1
    /\ UNCHANGED <<data, containerList, spawnIdx, wg, gs, loopSleep>>
    /\ UNCHANGED <<cycleOutcome, pulled, removed, pullFailed, pruneFailed, sleeps, unremoved>>
    /\ UNCHANGED <<mainVars, sigVars, jitterVars>>

\* slip: a failed prune ends the iteration without its sleep
AfterPruneNoSleep(err) == IF err THEN "read" ELSE "sleep"

\* where the loop goes when runDockerSystemPrune returned err: the result is
\* discarded and sleepWithJitter(900) follows
AfterPrune(err) == "sleep"

\* the prune returns (its error is only logged); sleepWithJitter(900)
PruneFinish ==
    /\ Running
    /\ loopPc = "pruning"
    /\ \E err \in BOOLEAN :
        /\ pruneFailed' = err
        /\ loopPc' = AfterPrune(err)
        /\ IF AfterPrune(err) = "sleep"
             THEN /\ sleeps' = sleeps + 1
                  /\ loopSleep' \in JitterResults(LoopInterval)
             ELSE UNCHANGED <<sleeps, loopSleep>>
    /\ UNCHANGED <<data, containerList, spawnIdx, wg, gs>>
    /\ UNCHANGED <<cycleOutcome, pulled, removed, pullFailed, prunes, unremoved>>
    /\ UNCHANGED <<mainVars, sigVars, jitterVars>>

\* slip: "continue" is missing after the sleep of a failed decode
AfterSleepFallThrough(outcome) == IF outcome = "decodefail" THEN "add" ELSE "read"

\* where the loop continues after its sleep: "continue" after a failed read
\* or decode, the end of the for body otherwise; both start a new iteration
AfterSleep(outcome) == "read"

\* time.Sleep of sleepWithJitter(900) is over: next iteration of the loop
LoopWake ==
    /\ Running
    /\ loopPc = "sleep"
    /\ loopPc' = AfterSleep(cycleOutcome)
    /\ loopSleep' = 0
    /\ UNCHANGED <<data, containerList, spawnIdx, wg, gs>>
    /\ UNCHANGED <<mainVars, sigVars, histVars, jitterVars>>

\* ---- per-image goroutines -----------------------------------------------
Replace(g, h) == (gs \ {g}) \cup {h}

\* dockerRunner.runDockerPull(container): docker pull is issued
PullStart(g) ==
    /\ Running
    /\ g.pc = "spawned"
    /\ gs' = Replace(g, [g EXCEPT !.pc = "pulling"])
    /\ pulled' = [pulled EXCEPT ![g.container] = @ + 1]
    /\ unremoved' = IF variant = "remove" THEN unremoved \cup {g.container} ELSE unremoved
    /\ UNCHANGED <<loopPc, data, containerList, spawnIdx, wg, loopSleep>>
    /\ UNCHANGED <<cycleOutcome, removed, pullFailed, prunes, pruneFailed, sleeps>>
    /\ UNCHANGED <<mainVars, sigVars, jitterVars>>

\* slip: a failed pull ends the goroutine before its deferred wg.Done
AfterPullAbort(v, err) == IF err THEN "aborted" ELSE IF v = "remove" THEN "pulled" ELSE "exit"

\* slip: the image is removed only when its pull succeeded
AfterPullChecked(v, err) == IF v = "remove" /\ ~err THEN "pulled" ELSE "exit"

\* what the goroutine does after runDockerPull returned err: the result is
\* discarded; main.go goes to the deferred wg.Done, the remove variant to
\* runDockerRemoveImage
AfterPull(v, err) == IF v = "remove" THEN "pulled" ELSE "exit"

\* docker pull returns, with or without an error (a failure is only logged)
PullFinish(g) ==
    /\ Running
    /\ g.pc = "pulling"
    /\ \E err \in BOOLEAN :
        /\ gs' = Replace(g, [g EXCEPT !.pc = AfterPull(variant, err), !.pullErr = err])
        /\ pullFailed' = (pullFailed \/ err)
    /\ UNCHANGED <<loopPc, data, containerList, spawnIdx, wg, loopSleep>>
    /\ UNCHANGED <<cycleOutcome, pulled, removed, prunes, pruneFailed, sleeps, unremoved>>
    /\ UNCHANGED <<mainVars, sigVars, jitterVars>>

\* the image runDockerRemoveImage is called with
RemoveArg(g) == g.container

\* remove variant: dockerRunner.runDockerRemoveImage(container): docker rmi is issued
RmiStart(g) ==
    /\ Running
    /\ g.pc = "pulled"
    /\ gs' = Replace(g, [g EXCEPT !.pc = "removing"])
    /\ removed' = [removed EXCEPT ![RemoveArg(g)] = @ + 1]
    /\ unremoved' = unremoved \ {RemoveArg(g)}
    /\ UNCHANGED <<loopPc, data, containerList, spawnIdx, wg, loopSleep>>
    /\ UNCHANGED <<cycleOutcome, pulled, pullFailed, prunes, pruneFailed, sleeps>>
    /\ UNCHANGED <<mainVars, sigVars, jitterVars>>

\* docker rmi returns, with or without an error (a failure is only logged)
RmiFinish(g) ==
    /\ Running
    /\ g.pc = "removing"
    /\ \E err \in BOOLEAN :
        gs' = Replace(g, [g EXCEPT !.pc = "exit"])
    /\ UNCHANGED <<loopPc, data, containerList, spawnIdx, wg, loopSleep>>
    /\ UNCHANGED <<mainVars, sigVars, histVars, jitterVars>>

\* defer wg.Done(): the goroutine ends
GoroutineExit(g) ==
    /\ Running
    /\ g.pc = "exit"
    /\ gs' = gs \ {g}
    /\ wg' = wg - 1
    /\ UNCHANGED <<loopPc, data, containerList, spawnIdx, loopSleep>>
    /\ UNCHANGED <<mainVars, sigVars, histVars, jitterVars>>

\* ---- specifications -----------------------------------------------------
MainStep ==
    \/ StartDockerDaemon
    \/ WaitForDockerDaemon
    \/ DaemonPollWake
    \/ SkipHealthCheck
    \/ HttpGetHealth
    \/ AlpinePullStart
    \/ AlpinePullFinish
    \/ ReadySleepWake
    \/ StartLoop

LoopStep ==
    \/ ReadFile
    \/ Unmarshal
    \/ WgAdd
    \/ Spawn
    \/ WgWait
    \/ PruneStart
    \/ PruneFinish
    \/ LoopWake

GoroutineStep ==
    \/ \E g \in gs : PullStart(g)
    \/ \E g \in gs : PullFinish(g)
    \/ \E g \in gs : RmiStart(g)
    \/ \E g \in gs : RmiFinish(g)
    \/ \E g \in gs : GoroutineExit(g)

SignalStep ==
    \/ SignalDropped
    \/ SignalReceived

\* the program with no signal delivered
Quiet ==
    \/ MainStep
    \/ LoopStep
    \/ GoroutineStep
    \/ DaemonCreatesSocket

Next ==
    \/ Quiet
    \/ SignalStep

Spec == Init /\ [][Next]_vars

\* The Go scheduler runs every runnable goroutine, every sleep ends and every
\* external command returns.  Signals and the creation of the socket by
\* dockerd are left to the environment.
Fairness ==
    /\ WF_vars(MainStep)
    /\ WF_vars(LoopStep)
    /\ WF_vars(GoroutineStep)

\* the program under fair scheduling, signals possible at any time
FairSpec == Init /\ [][Next]_vars /\ Fairness

\* the program under fair scheduling when no signal is ever delivered
QuietFairSpec == Init /\ [][Quiet]_vars /\ Fairness

\* ---- applyJitter as a function ------------------------------------------
JitterInputs == (4..MaxJitterInput) \cup {ReadyInterval, LoopInterval}

JitterInit ==
    /\ ProgramInit
    /\ jIn \in JitterInputs
    /\ jOut = 0

\* output = applyJitter(input)
ApplyJitterCall ==
    /\ jOut = 0
    /\ jOut' \in JitterResults(jIn)
    /\ UNCHANGED <<mainVars, sigVars, loopVars, histVars, jIn>>

JitterNext == ApplyJitterCall

JitterSpec == JitterInit /\ [][JitterNext]_vars

\* ---- properties ---------------------------------------------------------
\* a docker pull is running: the readiness pull of main or a pull of a goroutine
PullInFlight == mainPc = "alpinePulling" \/ \E g \in gs : g.pc = "pulling"

\* the wait group join of this cycle has returned
Joined == cycleOutcome = "ok" /\ loopPc \in {"prune", "pruning", "sleep", "read"}

\* the sleep range the specification states for the loop: 900 s +- 25%
LoopSleepRange == 675..1125

\* C1: in both variants a docker pull is only ever running once the daemon
\* was started successfully and waitForDockerDaemon has returned, and the
\* wait returns only after the start: start -> ready -> first pull.
C1_PullAfterDaemonReady ==
    /\ PullInFlight => (daemonStarted /\ daemonReady)
    /\ gs /= {} => (daemonStarted /\ daemonReady)
    /\ daemonReady => daemonStarted

\* C1 witness: a pull of a listed image is running
C1_Witness == \E g \in gs : g.pc = "pulling" /\ daemonStarted /\ daemonReady

\* C2: in a cycle whose file was read and decoded, the list is the one read
\* at the start of the cycle, no image is pulled more often than it is
\* listed, and once the join has returned every entry was pulled exactly
\* once per occurrence (list lengths 0..MaxLen).
C2_OnePullPerEntry ==
    /\ cycleOutcome = "ok" => containerList = data.list
    /\ \A img \in Images : pulled[img] <= Count(containerList, img)
    /\ Joined => pulled = BagOf(containerList)

\* C2 witness: a joined cycle over a list of two different images
C2_Witness ==
    /\ Joined
    /\ Len(containerList) >= 2
    /\ containerList[1] /= containerList[2]
    /\ pulled = BagOf(containerList)

\* C3: in the prune variant, while docker system prune is about to be issued
\* or running, no pull goroutine of the cycle is left.
C3_PruneAfterPulls ==
    loopPc \in {"prune", "pruning"} => (gs = {} /\ ~PullInFlight)

\* C3 witness: the prune runs after the pulls of a non-empty list
C3_Witness ==
    /\ loopPc = "pruning"
    /\ Len(containerList) >= 1
    /\ pulled = BagOf(containerList)

\* C4 as stated: in the remove variant every docker pull the program issues,
\* at any point of its run, is eventually followed by a docker rmi of the
\* same image.
C4_Original ==
    \A img \in Images :
        (variant = "remove" /\ img \in unremoved) ~> (img \notin unremoved)

\* a docker rmi is issued in this step
RmiIssued == \E img \in Images : removed'[img] > removed[img]

\* C4 amended: in the remove variant every docker pull of a listed image,
\* issued by a goroutine of the loop, is followed by a docker rmi of the same
\* image: an rmi is only issued by a goroutine whose own pull of that image
\* has returned, every started fan-out reaches its join, and at the join
\* each listed image was removed as often as it was pulled and listed.
C4_ListedPullsRemoved ==
    /\ [](variant = "remove" /\ Joined =>
            (removed = pulled /\ removed = BagOf(containerList)))
    /\ [][RmiIssued =>
            \E g \in gs : /\ g.pc = "pulled"
                          /\ removed' = [removed EXCEPT ![g.container] = @ + 1]
                          /\ [g EXCEPT !.pc = "removing"] \in gs']_vars
    /\ (variant = "remove" /\ loopPc = "add") ~> (variant = "remove" /\ Joined)

\* C4 witness: a joined cycle of the remove variant whose two listed images
\* were pulled (one pull failed) and removed, the readiness image left behind
C4_Witness ==
    /\ variant = "remove"
    /\ Joined
    /\ Len(containerList) >= 2
    /\ pullFailed
    /\ removed = BagOf(containerList)
    /\ unremoved = {ReadinessImage}

\* C5: a failed pull changes nothing: the join still returns with every
\* listed image pulled and no goroutine left, the prune variant still prunes
\* once, one sleep follows, and the next cycle starts with a new read.
C5_FailedPullIgnored ==
    /\ []((pullFailed /\ Joined) =>
            /\ pulled = BagOf(containerList)
            /\ gs = {}
            /\ (loopPc \in {"sleep", "read"} => sleeps = 1)
            /\ (variant = "prune" /\ loopPc \in {"sleep", "read"} => prunes = 1))
    /\ pullFailed ~> ~pullFailed

\* C5 witness: a cycle of two images, one pull failed, is over and the loop
\* is at the read of the next cycle
C5_Witness ==
    /\ pullFailed
    /\ loopPc = "read"
    /\ Len(containerList) >= 2
    /\ pulled = BagOf(containerList)

\* floor(0.25 * n)
Quarter(n) == (25 * n) \div 100

\* C6: for n >= 4, applyJitter(n) lies within n -+ floor(0.25 n); for n = 900
\* within 675..1125 and for n = 10 within 8..12.
C6_JitterWithinQuarter ==
    jOut /= 0 =>
        /\ jIn - Quarter(jIn) <= jOut
        /\ jOut <= jIn + Quarter(jIn)
        /\ (jIn = 900 => jOut \in LoopSleepRange)
        /\ (jIn = 10 => jOut \in 8..12)

\* C6 witness: the longest sleep of the loop
C6_Witness == jIn = 900 /\ jOut = 1124

\* C7: a cycle whose read or strict decode failed issues no docker command,
\* starts no goroutine, sleeps exactly once (900 s jittered) and is then back
\* at the read; the loop is never anywhere else.
C7_ConfigFailure ==
    cycleOutcome \in {"readfail", "decodefail"} =>
        /\ pulled = ZeroBag
        /\ removed = ZeroBag
        /\ prunes = 0
        /\ gs = {}
        /\ sleeps = 1
        /\ loopPc \in {"sleep", "read"}
        /\ (loopPc = "sleep" => loopSleep \in LoopSleepRange)

\* C7 witness: the loop is back at the read after a failed decode
C7_Witness == cycleOutcome = "decodefail" /\ loopPc = "read" /\ sleeps = 1

\* C8: cycles never overlap: no goroutine is left when a cycle reads its
\* file, every live goroutine works on an entry of the list of the current
\* cycle, and at most len(list) goroutines are in flight.
C8_BoundedFanOut ==
    /\ loopPc \in {"read", "unmarshal", "add"} => gs = {}
    /\ \A g \in gs : /\ g.idx \in 1..Len(containerList)
                      /\ g.container = containerList[g.idx]
    /\ Cardinality(gs) <= Len(containerList)

\* C8 witness: the whole fan-out of a two-entry list is in flight
C8_Witness == Len(containerList) >= 2 /\ Cardinality(gs) = Len(containerList)

\* C9 as stated: a signal delivered after signal.Notify eventually makes main
\* return (the process is over), wherever main is when it arrives.
C9_Original == sigDelivered ~> (mainPc \in {"done", "fatal"})

\* ioutil.ReadFile has just returned in this cycle
JustRead == loopPc = "unmarshal" \/ (loopPc = "sleep" /\ cycleOutcome = "readfail")

\* C10: with no signal and terminating commands, once the loop runs the file
\* is read again and again, and between the end of a cycle and the next read
\* there is exactly one sleep of 900 s jittered.
C10_LoopForever ==
    /\ [](/\ sleeps <= 1
          /\ (loopPc = "sleep" => (sleeps = 1 /\ loopSleep \in LoopSleepRange))
          /\ (loopPc = "read" /\ cycleOutcome /= "none" => sleeps = 1))
    /\ []<>(loopPc \in {"idle", "read"})
    /\ []<>(loopPc = "idle" \/ JustRead)

\* C10 witness: a cycle with pulls is over, the loop has slept and is back
\* at the read
C10_Witness ==
    /\ loopPc = "read"
    /\ cycleOutcome = "ok"
    /\ Len(containerList) >= 1
    /\ sleeps = 1

\* C11: the join has no timeout: as long as one goroutine of the cycle has
\* not finished (its pull or rmi has not returned), the loop is still in the
\* fan-out or blocked in wg.Wait, with a positive counter, and this cycle has
\* issued no prune and started no sleep; so a command that never returns
\* holds the loop there for ever, whatever the other goroutines did.
C11_JoinWithoutTimeout ==
    gs /= {} =>
        /\ loopPc = "spawn"
        /\ wg >= Cardinality(gs)
        /\ prunes = 0
        /\ sleeps = 0
        /\ loopSleep = 0

\* C11 witness: of a two-entry list one pull is still running, every other
\* goroutine is gone, and the loop is blocked in wg.Wait
C11_Witness ==
    /\ loopPc = "spawn"
    /\ Len(containerList) >= 2
    /\ spawnIdx > Len(containerList)
    /\ wg = 1
    /\ Cardinality(gs) = 1
    /\ \E g \in gs : g.pc = "pulling"

\* C12 as stated: in the remove variant docker rmi is running for a listed
\* image only if the pull of that image in the same goroutine returned no
\* error.
C12_Original == \A g \in gs : g.pc = "removing" => ~g.pullErr

\* pulls of img that have not returned yet
PullsRunning(img) == Cardinality({g \in gs : g.pc = "pulling" /\ g.container = img})

\* C12 amended: in the remove variant docker rmi is issued for a listed image
\* only after the pull of that image in the same goroutine has returned,
\* whether that pull succeeded or failed: per image there are never more
\* rmis than returned pulls, a goroutine keeps no error before its pull
\* returned, and at the join every listed image was removed once per
\* occurrence, failed pulls included.
C12_RmiAfterPullReturned ==
    variant = "remove" =>
        /\ \A img \in Images : removed[img] + PullsRunning(img) <= pulled[img]
        /\ \A g \in gs : g.pc \in {"spawned", "pulling"} => ~g.pullErr
        /\ Joined => removed = BagOf(containerList)

\* C12 witness: docker rmi is running for an image whose pull failed
C12_Witness ==
    /\ variant = "remove"
    /\ \E g \in gs : g.pc = "removing" /\ g.pullErr /\ removed[g.container] = 1

\* C13: in the prune variant a cycle issues no prune before its join and
\* exactly one after it, for every list (the empty one included) and
\* whatever the pulls returned; a failed prune is followed by the one sleep
\* of the cycle and the next read, like a successful one.
C13_OnePrunePerCycle ==
    variant = "prune" =>
        /\ prunes <= 1
        /\ loopPc \in {"unmarshal", "add", "spawn", "prune"} => prunes = 0
        /\ (cycleOutcome = "ok" /\ loopPc \in {"pruning", "sleep", "read"}) => prunes = 1
        /\ pruneFailed =>
              /\ prunes = 1
              /\ sleeps = 1
              /\ loopPc \in {"sleep", "read"}
              /\ (loopPc = "sleep" => loopSleep \in LoopSleepRange)

\* C13 witness: a cycle whose pulls failed and whose prune failed has slept
\* and the loop is back at the read
C13_Witness ==
    /\ variant = "prune"
    /\ pullFailed
    /\ pruneFailed
    /\ prunes = 1
    /\ loopPc = "read"

\* startDockerDaemon has returned an error
StartFailed == mainPc /= "startDaemon" /\ ~daemonStarted

\* C14: when startDockerDaemon returns an error the process is over at once
\* (log.Fatal): main never waits for the socket or sleeps, the loop
\* goroutine never starts, no pull, rmi or prune is ever issued, and no step
\* follows.
C14_FatalOnStartError ==
    /\ [](StartFailed =>
            /\ mainPc = "fatal"
            /\ ~daemonReady
            /\ mainSleep = 0
            /\ loopPc = "idle"
            /\ gs = {}
            /\ pulled = ZeroBag
            /\ removed = ZeroBag
            /\ prunes = 0
            /\ unremoved = {})
    /\ [][~StartFailed]_vars

\* C14 witness: the start failed and the process has exited
C14_Witness == StartFailed /\ mainPc = "fatal" /\ loopPc = "idle"

\* C15 as stated: waitForDockerDaemon has returned only if
\* /var/run/docker.sock exists, whatever os.Stat returned, and while main
\* sleeps between two polls the sleep is 1 s.
C15_Original ==
    /\ daemonReady => sock = "present"
    /\ mainPc = "waitSleep" => mainSleep = DaemonPollInterval

\* the sleep range the specification states for a readiness retry: 10 s +- 25%
ReadySleepRange == 8..12

\* main has left its readiness wait: the loop goroutine is about to start or
\* has been started
PastReadiness == loopPc /= "idle" \/ mainPc \in {"goLoop", "block", "done"}

\* main leaves the position it is at
MainMoves == mainPc' /= mainPc

\* C16: in the remove variant the list file is read and listed images are
\* pulled only after a docker pull of alpine has succeeded; every attempt
\* ends either in that success or in a failure followed by a sleep of 10 s
\* jittered, after which the pull is issued again, with no attempt counter.
C16_LoopAfterMirrorReady ==
    /\ [](variant = "remove" =>
            /\ PastReadiness => probeOk
            /\ (gs /= {} \/ cycleOutcome /= "none" \/ pulled /= ZeroBag) => probeOk
            /\ mainPc = "readySleep" => (~probeOk /\ mainSleep \in ReadySleepRange))
    /\ [][(variant = "remove" /\ MainMoves) =>
            /\ mainPc = "ready" => mainPc' = "alpinePulling"
            /\ mainPc = "alpinePulling" =>
                  \/ probeOk' /\ mainPc' = "goLoop"
                  \/ ~probeOk' /\ mainPc' = "readySleep"
            /\ mainPc = "readySleep" => mainPc' = "ready"]_vars

\* C16 witness: a listed image is being pulled after the mirror was ready
C16_Witness ==
    /\ variant = "remove"
    /\ probeOk
    /\ \E g \in gs : g.pc = "pulling"

\* C17: in the prune variant with a health endpoint the loop starts only
\* after a GET returned without error and with status 200; every other
\* outcome is followed by a sleep of 10 s jittered and another GET; without
\* an endpoint no GET and no sleep happen and main goes from the daemon wait
\* straight to starting the loop.
C17_LoopAfterRegistryReady ==
    /\ [](variant = "prune" =>
            /\ (healthEndpoint /\ PastReadiness) => probeOk
            /\ ~healthEndpoint => (~probeOk /\ mainPc /= "readySleep")
            /\ mainPc = "readySleep" => (~probeOk /\ mainSleep \in ReadySleepRange))
    /\ [][(variant = "prune" /\ MainMoves) =>
            /\ (mainPc = "ready" /\ healthEndpoint) =>
                  \/ probeOk' /\ mainPc' = "goLoop"
                  \/ ~probeOk' /\ mainPc' = "readySleep"
            /\ (mainPc = "ready" /\ ~healthEndpoint) => mainPc' = "goLoop"
            /\ mainPc = "readySleep" => mainPc' = "ready"]_vars

\* C17 witness: with an endpoint configured the loop runs a pull after the
\* registry answered 200
C17_Witness ==
    /\ variant = "prune"
    /\ healthEndpoint
    /\ probeOk
    /\ \E g \in gs : g.pc = "pulling"

\* a docker rmi of img is running while a docker pull of img is in flight
SelfOverlap(img) ==
    \E g, h \in gs : /\ g.pc = "removing"
                     /\ h.pc = "pulling"
                     /\ g.container = img
                     /\ h.container = img

\* the list of the cycle has no duplicate entries
NoDuplicates == \A img \in Images : Count(containerList, img) <= 1

\* C18: in the remove variant a docker rmi of an image runs concurrently
\* with a docker pull of the same image only between two different
\* goroutines, that is only for an image listed more than once; with a list
\* without duplicates it never does, and no rmi runs during the readiness
\* pull of main.
C18_RmiNotDuringOwnPull ==
    variant = "remove" =>
        /\ \A g, h \in gs :
              (g.pc = "removing" /\ h.pc = "pulling" /\ g.container = h.container) =>
                  (g.idx /= h.idx /\ Count(containerList, g.container) >= 2)
        /\ NoDuplicates => \A img \in Images : ~SelfOverlap(img)
        /\ mainPc = "alpinePulling" => gs = {}

\* C18 witness: with a duplicated entry the rmi of one occurrence runs while
\* the pull of the other occurrence is in flight
C18_Witness ==
    /\ variant = "remove"
    /\ ~NoDuplicates
    /\ \E img \in Images : SelfOverlap(img)

\* pull and rmi of different images of a list without duplicates interleave
C18_Interleaving ==
    /\ variant = "remove"
    /\ NoDuplicates
    /\ \E g, h \in gs : g.pc = "removing" /\ h.pc = "pulling" /\ g.container /= h.container

====
